---- MODULE Spec2Model ----
(***************************************************************************)
(* A model of ActivityModel.py (class ActivityRecommender): the catalog    *)
(* loader, the content-similarity matrix, the user table, the four         *)
(* interaction collections and the recommendation engine, driven by the    *)
(* handlers of the tkinter screens.                                        *)
(*                                                                         *)
(* Numbers.  The program computes with floats; the model uses fixed point: *)
(*   prices        in units of 1/PriceUnit  (the sliders' resolution 0.05) *)
(*   participants  in units of 1/PartUnit                                  *)
(*   similarities and scores in units of 1/SimUnit                         *)
(***************************************************************************)
EXTENDS Integers, Sequences, FiniteSets, TLC

VARIABLES
    activities,          \* self.activities: id -> row, fixed after __init__
    content_similarity,  \* self.content_similarity: id -> id -> similarity
    argsort_ties,        \* how this build's np.argsort orders equal keys
    users,               \* self.users: username -> [user_id, preferences]
    user_pins,           \* self.user_pins: defaultdict(set), key -> set of ids
    user_likes,          \* self.user_likes: defaultdict(set)
    user_dislikes,       \* self.user_dislikes: defaultdict(set)
    user_ratings,        \* self.user_ratings: defaultdict(dict), insertion ordered
    current_user,        \* self.current_user
    screen,              \* which screen the root window shows
    cards,               \* the ids of the activity cards with buttons on that screen
    popups,              \* the open "details" Toplevel windows, by activity id
    last                 \* what the last handler returned and displayed

vars == <<activities, content_similarity, argsort_ties, users, user_pins,
          user_likes, user_dislikes, user_ratings, current_user, screen,
          cards, popups, last>>

-----------------------------------------------------------------------------
(* Bounds of the model *)

\* the session holds at most this many things the user entered or opened:
\* accounts, interaction records, preference fields that differ from the
\* defaults, and open details windows
MaxSize == 3

\* the datasets read at construction hold at most MaxRows rows, with a raw
\* Participants value in 0..MaxRaw in each
MaxRows == 3
MaxRaw == 4

\* the values of top_n (1..MaxTopN) the properties of get_recommendations range over
MaxTopN == 5

-----------------------------------------------------------------------------
(* Fixed-point units and program constants *)

PriceUnit == 20
PartUnit == 12
SimUnit == 1000

LikeBoost == 500
PinBoost == 300
DislikePenalty == 1000
\* a sentinel above every score instead of below
SentinelAboveScores == 10 * SimUnit
Sentinel == 0 - 10000

ScreenTopN == 5
RandomTopN == 1

\* Python's None (never equal to a stripped, non-empty username)
None == <<"None">>

Min(a, b) == IF a <= b THEN a ELSE b
Max(a, b) == IF a >= b THEN a ELSE b

RECURSIVE SumSeq(_)
SumSeq(s) == IF Len(s) = 0 THEN 0 ELSE Head(s) + SumSeq(Tail(s))

SeqMin(s) == CHOOSE m \in {s[i] : i \in 1..Len(s)} : \A j \in 1..Len(s) : m <= s[j]
SeqMax(s) == CHOOSE m \in {s[i] : i \in 1..Len(s)} : \A j \in 1..Len(s) : m >= s[j]

\* floor of the square root
ISqrt(x) == CHOOSE k \in 0..(PriceUnit * 2 * PriceUnit) : k * k <= x /\ (k + 1) * (k + 1) > x

-----------------------------------------------------------------------------
(* Catalog loader: load_data, convert_to_scale *)

\* The rows of Activity_DataSet.csv as read: Price in tenths, Participants raw.
\* The empty sequence stands for a missing, unreadable or empty file.
ScenarioCsv ==
    << [Activity |-> "A", Type |-> "Outdoor", Price |-> 3, Participants |-> 4],
       [Activity |-> "B", Type |-> "Indoor",  Price |-> 7, Participants |-> 2] >>

CsvFiles == { <<>>, ScenarioCsv }

\* the built-in dataset of the except branch (Participants already on 1-5)
DefaultDataset ==
    << [Activity |-> "Hiking",        Type |-> "Outdoor",  Price |-> 3, Participants |-> 4 * PartUnit],
       [Activity |-> "Movie Night",   Type |-> "Indoor",   Price |-> 7, Participants |-> 2 * PartUnit],
       [Activity |-> "Cooking Class", Type |-> "Indoor",   Price |-> 5, Participants |-> 3 * PartUnit],
       [Activity |-> "Museum Visit",  Type |-> "Cultural", Price |-> 6, Participants |-> 3 * PartUnit] >>

\* the rescaling without the final "+ min_val"
convert_to_scale_without_offset(series, min_val, max_val) ==
    LET current_min == SeqMin(series)
        current_max == SeqMax(series)
    IN  IF current_max - current_min = 0
        THEN [i \in 1..Len(series) |-> min_val * PartUnit]
        ELSE [i \in 1..Len(series) |->
                ((series[i] - current_min) * (max_val - min_val) * PartUnit)
                    \div (current_max - current_min)]

\* ((series - min) / (max - min)) * (max_val - min_val) + min_val, in 1/PartUnit
convert_to_scale(series, min_val, max_val) ==
    LET current_min == SeqMin(series)
        current_max == SeqMax(series)
    IN  IF current_max - current_min = 0
        THEN [i \in 1..Len(series) |-> min_val * PartUnit]
        ELSE [i \in 1..Len(series) |->
                ((series[i] - current_min) * (max_val - min_val) * PartUnit)
                    \div (current_max - current_min) + min_val * PartUnit]

\* the data frame after load_data: rows indexed by id = 0..n-1
load_data(csv) ==
    LET scaled == convert_to_scale([i \in 1..Len(csv) |-> csv[i].Participants], 1, 5)
        rows == IF Len(csv) = 0
                THEN DefaultDataset
                ELSE [i \in 1..Len(csv) |-> [csv[i] EXCEPT !.Participants = scaled[i]]]
    IN  [id \in 0..(Len(rows) - 1) |->
            [id |-> id, Activity |-> rows[id + 1].Activity, Type |-> rows[id + 1].Type,
             Price |-> rows[id + 1].Price, Participants |-> rows[id + 1].Participants]]

-----------------------------------------------------------------------------
(* Content features: prepare_data *)

\* MinMaxScaler().fit_transform on the Price column, in 1/PriceUnit
\* (a constant column has range 0, which sklearn replaces by 1: all zeros)
scale_price(acts) ==
    LET ids == DOMAIN acts
        lo == CHOOSE m \in {acts[i].Price : i \in ids} : \A j \in ids : m <= acts[j].Price
        hi == CHOOSE m \in {acts[i].Price : i \in ids} : \A j \in ids : m >= acts[j].Price
    IN  [id \in ids |->
            [acts[id] EXCEPT !.Price =
                IF hi = lo THEN 0 ELSE ((acts[id].Price - lo) * PriceUnit) \div (hi - lo)]]

\* the dot product of two rows of content_features: Price and the one-hot Type
feature_dot(a, b) ==
    a.Price * b.Price + (IF a.Type = b.Type THEN PriceUnit * PriceUnit ELSE 0)

\* sklearn cosine_similarity of the feature rows, in 1/SimUnit
cosine_similarity(acts) ==
    [i \in DOMAIN acts |-> [j \in DOMAIN acts |->
        LET norms == ISqrt(feature_dot(acts[i], acts[i]) * feature_dot(acts[j], acts[j]))
        IN  IF norms = 0 THEN 0
            ELSE (feature_dot(acts[i], acts[j]) * SimUnit) \div norms]]

N == Cardinality(DOMAIN activities)
Ids == DOMAIN activities
Types == {activities[i].Type : i \in Ids}

-----------------------------------------------------------------------------
(* dict *)

\* a dict is a sequence of <<key, value>> in insertion order
Keys(dict) == {dict[i][1] : i \in 1..Len(dict)}

\* dict[key] = value: an existing key keeps its place
SetItem(dict, key, value) ==
    IF key \in Keys(dict)
    THEN [i \in 1..Len(dict) |-> IF dict[i][1] = key THEN <<key, value>> ELSE dict[i]]
    ELSE Append(dict, <<key, value>>)

-----------------------------------------------------------------------------
(* User management: create_user *)

DefaultPreferences ==
    [activity_types |-> {}, price_range |-> <<0, PriceUnit>>, participants_range |-> <<1, 5>>]

\* create_user without the test for an existing username
create_user_overwrites(us, username) ==
    [ok |-> TRUE,
     users |-> [x \in DOMAIN us \cup {username} |->
                  IF x # username THEN us[x]
                  ELSE [user_id |-> Cardinality(DOMAIN us),
                        preferences |-> DefaultPreferences]]]

\* create_user(username): the value returned and the users table afterwards
create_user(us, username) ==
    IF username \in DOMAIN us
    THEN [ok |-> FALSE, users |-> us]
    ELSE [ok |-> TRUE,
          users |-> [x \in DOMAIN us \cup {username} |->
                        IF x \in DOMAIN us THEN us[x]
                        ELSE [user_id |-> Cardinality(DOMAIN us),
                              preferences |-> DefaultPreferences]]]

-----------------------------------------------------------------------------
(* Recommendation engine: get_recommendations *)

\* the loop assigning (scores = ...) where the code accumulates (scores += ...)
RECURSIVE add_ratings_overwrites(_, _)
add_ratings_overwrites(scores, ratings) ==
    IF Len(ratings) = 0 THEN scores
    ELSE add_ratings_overwrites(
            [i \in DOMAIN scores |->
                content_similarity[Head(ratings)[1]][i] * Head(ratings)[2]],
            Tail(ratings))

\* scores after the loop over user_ratings[current_user].items()
RECURSIVE add_ratings(_, _)
add_ratings(scores, ratings) ==
    IF Len(ratings) = 0 THEN scores
    ELSE add_ratings(
            [i \in DOMAIN scores |->
                scores[i] + content_similarity[Head(ratings)[1]][i] * Head(ratings)[2]],
            Tail(ratings))

\* the boosts spread over the whole vector instead of the id's own entry
add_boosts_to_all(scores, likes, pins, dislikes) ==
    [i \in DOMAIN scores |->
        scores[i] + LikeBoost * Cardinality(likes) + PinBoost * Cardinality(pins)
                  - DislikePenalty * Cardinality(dislikes)]

\* scores after the three loops over likes, pins and dislikes
add_boosts(scores, likes, pins, dislikes) ==
    [i \in DOMAIN scores |->
        scores[i] + (IF i \in likes THEN LikeBoost ELSE 0)
                  + (IF i \in pins THEN PinBoost ELSE 0)
                  - (IF i \in dislikes THEN DislikePenalty ELSE 0)]

\* the three tests of the loop over self.activities.iterrows()
filtered_out(preferences, row) ==
    \/ preferences.activity_types # {} /\ row.Type \notin preferences.activity_types
    \/ ~(preferences.price_range[1] <= row.Price /\ row.Price <= preferences.price_range[2])
    \/ ~(/\ preferences.participants_range[1] * PartUnit <= row.Participants
         /\ row.Participants <= preferences.participants_range[2] * PartUnit)

filter_by_preferences(scores, preferences) ==
    [i \in DOMAIN scores |->
        IF filtered_out(preferences, activities[i]) THEN Sentinel ELSE scores[i]]

\* pins | likes | dislikes | ratings.keys()
interacted_of(pins, likes, dislikes, ratings) ==
    pins \cup likes \cup dislikes \cup Keys(ratings)

\* the scores without the exclusion loop
exclude_nothing(scores, interacted) == scores

exclude_interacted(scores, interacted) ==
    [i \in DOMAIN scores |-> IF i \in interacted THEN Sentinel ELSE scores[i]]

\* the score vector handed to argsort
final_scores(preferences, pins, likes, dislikes, ratings) ==
    exclude_interacted(
        filter_by_preferences(
            add_boosts(add_ratings([i \in Ids |-> 0], ratings), likes, pins, dislikes),
            preferences),
        interacted_of(pins, likes, dislikes, ratings))

\* np.argsort(scores): indices by ascending score; equal scores in the order
\* this build's sort leaves them ("stable": ascending index, as numpy's
\* insertion sort of short arrays does; "reversed": descending index)
argsort(scores) ==
    LET before(j, i) ==
            \/ scores[j] < scores[i]
            \/ scores[j] = scores[i] /\ j # i
                 /\ (IF argsort_ties = "stable" THEN j < i ELSE j > i)
    IN  [p \in 1..Cardinality(DOMAIN scores) |->
            CHOOSE i \in DOMAIN scores :
                Cardinality({j \in DOMAIN scores : before(j, i)}) = p - 1]

\* the slice without the reversal
not_reversed(s) == s

\* s[::-1]
reversed(s) == [p \in 1..Len(s) |-> s[Len(s) + 1 - p]]

\* s[:n]
first(s, n) == SubSeq(s, 1, Min(n, Len(s)))

\* a selection that drops the sentinel-valued entries
top_indices_without_sentinels(scores, top_n) ==
    SelectSeq(first(reversed(argsort(scores)), top_n), LAMBDA i : scores[i] # Sentinel)

top_indices(scores, top_n) == first(reversed(argsort(scores)), top_n)

-----------------------------------------------------------------------------
(* What the user can enter *)

\* texts typed into the username entry, as sequences of characters
TypedNames == { <<>>, <<" ">>, <<"a">>, <<" ", "a">>, <<"A">> }

RECURSIVE lstrip(_)
lstrip(s) == IF Len(s) > 0 /\ Head(s) = " " THEN lstrip(Tail(s)) ELSE s

RECURSIVE rstrip(_)
rstrip(s) == IF Len(s) > 0 /\ s[Len(s)] = " " THEN rstrip(SubSeq(s, 1, Len(s) - 1)) ELSE s

\* str.strip()
strip(s) == rstrip(lstrip(s))

\* the Radiobutton values of the rating window the model clicks
StarChoices == {1, 5}

\* positions of the preference sliders the model uses (prices in 1/PriceUnit)
PriceMinMarks == {0, 15}
PriceMaxMarks == {10, 20}
PartMinMarks == {1, 4}
PartMaxMarks == {3, 5}

\* sets of Checkbuttons the model ticks
TypeChoices == {{}, Types \cap {"Indoor"}}

-----------------------------------------------------------------------------
(* The size of a session, for the bound MaxSize *)

RECURSIVE SumSets(_, _)
SumSets(d, S) ==
    IF S = {} THEN 0
    ELSE LET k == CHOOSE x \in S : TRUE IN Cardinality(d[k]) + SumSets(d, S \ {k})

RECURSIVE SumLens(_, _)
SumLens(d, S) ==
    IF S = {} THEN 0
    ELSE LET k == CHOOSE x \in S : TRUE IN Len(d[k]) + SumLens(d, S \ {k})

PrefWeight(p) ==
      (IF p.activity_types # {} THEN 1 ELSE 0)
    + (IF p.price_range # DefaultPreferences.price_range THEN 1 ELSE 0)
    + (IF p.participants_range # DefaultPreferences.participants_range THEN 1 ELSE 0)

RECURSIVE SumPrefs(_, _)
SumPrefs(us, S) ==
    IF S = {} THEN 0
    ELSE LET k == CHOOSE x \in S : TRUE
         IN  PrefWeight(us[k].preferences) + SumPrefs(us, S \ {k})

SessionSize(us, pins, likes, dislikes, ratings, windows) ==
      Cardinality(DOMAIN us) + Cardinality(windows)
    + SumSets(pins, DOMAIN pins) + SumSets(likes, DOMAIN likes)
    + SumSets(dislikes, DOMAIN dislikes) + SumLens(ratings, DOMAIN ratings)
    + SumPrefs(us, DOMAIN us)

-----------------------------------------------------------------------------
(* get_recommendations at the current state *)

my_pins == user_pins[current_user]
my_likes == user_likes[current_user]
my_dislikes == user_dislikes[current_user]
my_ratings == user_ratings[current_user]

\* self.users.get(self.current_user) is a non-empty dict
user_known == current_user \in DOMAIN users

\* an index numpy rejects with IndexError
bad_index(S) == \E id \in S : id \notin Ids

\* the loop that meets such an index raises; whichever loop it is, the
\* except branch is what runs next
raises_in_ratings == bad_index(Keys(my_ratings))
raises_in_likes == bad_index(my_likes)
raises_in_pins == bad_index(my_pins)
raises_in_dislikes == bad_index(my_dislikes)
recommendation_raises ==
    raises_in_ratings \/ raises_in_likes \/ raises_in_pins \/ raises_in_dislikes

my_interacted == interacted_of(my_pins, my_likes, my_dislikes, my_ratings)

\* the score vector get_recommendations sorts for the current user
my_scores ==
    final_scores(users[current_user].preferences, my_pins, my_likes, my_dislikes, my_ratings)

\* the list the try block returns for the current user
ranked(top_n) ==
    top_indices(my_scores, top_n)

\* self.activities.sample(k): any k distinct rows in any order
samples(k) == {s \in [1..k -> Ids] : \A i, j \in 1..k : i # j => s[i] # s[j]}

\* the lists get_recommendations(top_n) can return
recommendations(top_n) ==
    IF ~user_known THEN { <<>> }
    ELSE IF recommendation_raises THEN samples(Min(top_n, N))
    ELSE { ranked(top_n) }

\* the message box get_recommendations itself raises
recommendation_box ==
    IF user_known /\ recommendation_raises THEN "showerror: Recommendation error" ELSE ""

-----------------------------------------------------------------------------
(* Interaction methods: the collections after each call *)

\* pins kept in one set shared by all users, under the key None
pin_activity_shared(pins, user, activity_id) ==
    [pins EXCEPT ![None] = @ \cup {activity_id}]

pin_activity(pins, user, activity_id) ==
    [pins EXCEPT ![user] = @ \cup {activity_id}]

\* like_activity without the removal from dislikes
like_activity_keeps_dislike(likes, dislikes, user, activity_id) ==
    << [likes EXCEPT ![user] = @ \cup {activity_id}], dislikes >>

\* like_activity: <<likes, dislikes>> after the call
like_activity(likes, dislikes, user, activity_id) ==
    << [likes EXCEPT ![user] = @ \cup {activity_id}],
       [dislikes EXCEPT ![user] = @ \ {activity_id}] >>

\* dislike_activity without the addition to dislikes
dislike_activity_only_unlikes(likes, dislikes, user, activity_id) ==
    << [likes EXCEPT ![user] = @ \ {activity_id}], dislikes >>

\* dislike_activity: <<likes, dislikes>> after the call
dislike_activity(likes, dislikes, user, activity_id) ==
    << [likes EXCEPT ![user] = @ \ {activity_id}],
       [dislikes EXCEPT ![user] = @ \cup {activity_id}] >>

rate_activity(ratings, user, activity_id, rating) ==
    [ratings EXCEPT ![user] = SetItem(@, activity_id, rating)]

\* the preferences record save_preferences stores
saved_preferences(selected_types, price_min, price_max, part_min, part_max) ==
    [activity_types |-> selected_types,
     price_range |-> <<price_min, price_max>>,
     participants_range |-> <<Min(part_min, part_max), Max(part_min, part_max)>>]

WithinBound ==
    SessionSize(users', user_pins', user_likes', user_dislikes', user_ratings', popups')
        <= MaxSize

Report(op, n, out, ok, box) == [op |-> op, n |-> n, out |-> out, ok |-> ok, box |-> box]

\* a handler that returns nothing and shows at most a showinfo box
Quiet == Report("", 0, <<>>, TRUE, "")

fixed == <<activities, content_similarity, argsort_ties>>

-----------------------------------------------------------------------------
(* __init__ *)

\* the keys the defaultdicts are read at: a username or None
DictKeys == ({strip(text) : text \in TypedNames} \ {<<>>}) \cup {None}

\* a defaultdict is its value at every key, the default where none was stored
defaultdict(default) == [k \in DictKeys |-> default]


Init ==
    \E csv \in CsvFiles :
        /\ activities = scale_price(load_data(csv))
        /\ content_similarity = cosine_similarity(scale_price(load_data(csv)))
        /\ argsort_ties \in {"stable", "reversed"}
        /\ users = [k \in {} |-> {}]
        /\ user_pins = defaultdict({})
        /\ user_likes = defaultdict({})
        /\ user_dislikes = defaultdict({})
        /\ user_ratings = defaultdict(<<>>)
        /\ current_user = None
        /\ screen = "login"
        /\ cards = {}
        /\ popups = {}
        /\ last = Report("__init__", 0, <<>>, TRUE,
                         IF Len(csv) = 0 THEN "showerror: Failed to load data" ELSE "")

-----------------------------------------------------------------------------
(* The screens' handlers *)

\* clear_window and the body of setup_home_screen
show_home ==
    /\ screen' = "home"
    /\ cards' = {}
    /\ popups' = {}

handle_login ==
    /\ screen = "login"
    /\ \E text \in TypedNames :
        LET username == strip(text) IN
        /\ IF username = <<>>
           THEN /\ last' = Report("handle_login", 0, <<>>, FALSE,
                                  "showerror: Please enter a username")
                /\ UNCHANGED <<current_user, screen, cards, popups>>
           ELSE IF username \in DOMAIN users
           THEN /\ current_user' = username
                /\ show_home
                /\ last' = Report("handle_login", 0, <<>>, TRUE, "")
           ELSE /\ last' = Report("handle_login", 0, <<>>, FALSE,
                                  "showerror: Username not found")
                /\ UNCHANGED <<current_user, screen, cards, popups>>
        /\ UNCHANGED <<fixed, users, user_pins, user_likes, user_dislikes, user_ratings>>

\* the Register button with `text` in the username entry
register(text) ==
    LET username == strip(text)
        created == create_user(users, username)
    IN  /\ screen = "login"
        /\ IF username = <<>>
           THEN /\ last' = Report("handle_register", 0, <<>>, FALSE,
                                  "showerror: Please enter a username")
                /\ UNCHANGED <<users, current_user, screen>>
           ELSE IF created.ok
           THEN /\ users' = created.users
                /\ current_user' = username
                /\ screen' = "preferences"
                /\ last' = Report("handle_register", 0, <<>>, TRUE, "")
           ELSE /\ users' = created.users
                /\ last' = Report("handle_register", 0, <<>>, FALSE,
                                  "showerror: Username already exists")
                /\ UNCHANGED <<current_user, screen>>
        /\ UNCHANGED <<fixed, cards, popups, user_pins, user_likes, user_dislikes,
                       user_ratings>>
        /\ WithinBound

handle_register == screen = "login" /\ \E text \in TypedNames : register(text)

save_preferences ==
    /\ screen = "preferences"
    /\ \E selected_types \in TypeChoices, price_min \in PriceMinMarks,
          price_max \in PriceMaxMarks, part_min \in PartMinMarks, part_max \in PartMaxMarks :
        /\ users' = [users EXCEPT ![current_user].preferences =
                        saved_preferences(selected_types, price_min, price_max,
                                          part_min, part_max)]
        /\ show_home
        /\ last' = Quiet
        /\ UNCHANGED <<fixed, current_user, user_pins, user_likes, user_dislikes, user_ratings>>
        /\ WithinBound

setup_home_screen ==
    /\ screen \in {"home", "recommendations"}
    /\ show_home
    /\ last' = Quiet
    /\ UNCHANGED <<fixed, users, current_user, user_pins, user_likes, user_dislikes,
                   user_ratings>>

setup_preferences_screen ==
    /\ screen = "home"
    /\ screen' = "preferences"
    /\ cards' = {}
    /\ popups' = {}
    /\ last' = Quiet
    /\ UNCHANGED <<fixed, users, current_user, user_pins, user_likes, user_dislikes,
                   user_ratings>>

setup_recommendations_screen ==
    /\ screen \in {"home", "recommendations"}
    /\ \E out \in recommendations(ScreenTopN) :
        /\ screen' = "recommendations"
        /\ cards' = {out[i] : i \in 1..Len(out)}
        /\ popups' = {}
        /\ last' = Report("get_recommendations", ScreenTopN, out, TRUE, recommendation_box)
        /\ UNCHANGED <<fixed, users, current_user, user_pins, user_likes, user_dislikes,
                       user_ratings>>

generate_random_activity ==
    /\ screen \in {"home", "recommendations"}
    /\ \E out \in recommendations(RandomTopN) :
        /\ IF Len(out) > 0
           THEN /\ popups' = popups \cup {out[1]}
                /\ last' = Report("get_recommendations", RandomTopN, out, TRUE,
                                  recommendation_box)
           ELSE /\ popups' = popups
                /\ last' = Report("get_recommendations", RandomTopN, out, TRUE,
                                  "showerror: Couldn't generate an activity")
        /\ UNCHANGED <<fixed, users, current_user, screen, cards, user_pins, user_likes,
                       user_dislikes, user_ratings>>
        /\ WithinBound

\* a logout that also drops the pins of the user who logs out
logout_clears_pins ==
    /\ screen \in {"home", "recommendations"}
    /\ current_user' = None
    /\ screen' = "login"
    /\ cards' = {}
    /\ popups' = {}
    /\ last' = Quiet
    /\ user_pins' = [user_pins EXCEPT ![current_user] = {}]
    /\ UNCHANGED <<fixed, users, user_likes, user_dislikes, user_ratings>>

logout ==
    /\ screen \in {"home", "recommendations"}
    /\ current_user' = None
    /\ screen' = "login"
    /\ cards' = {}
    /\ popups' = {}
    /\ last' = Quiet
    /\ UNCHANGED <<fixed, users, user_pins, user_likes, user_dislikes, user_ratings>>

\* the Like button of the card of activity_id
like(activity_id) ==
        /\ activity_id \in cards
        /\ user_likes' = like_activity(user_likes, user_dislikes, current_user, activity_id)[1]
        /\ user_dislikes' = like_activity(user_likes, user_dislikes, current_user, activity_id)[2]
        /\ last' = Quiet
        /\ UNCHANGED <<fixed, users, current_user, screen, cards, popups, user_pins,
                       user_ratings>>
        /\ WithinBound

\* the Dislike button of the card of activity_id
dislike(activity_id) ==
        /\ activity_id \in cards
        /\ user_likes' = dislike_activity(user_likes, user_dislikes, current_user, activity_id)[1]
        /\ user_dislikes' = dislike_activity(user_likes, user_dislikes, current_user, activity_id)[2]
        /\ last' = Quiet
        /\ UNCHANGED <<fixed, users, current_user, screen, cards, popups, user_pins,
                       user_ratings>>
        /\ WithinBound

like_button == \E activity_id \in Ids : like(activity_id)

dislike_button == \E activity_id \in Ids : dislike(activity_id)

pin_button ==
    \E activity_id \in cards :
        /\ user_pins' = pin_activity(user_pins, current_user, activity_id)
        /\ last' = Quiet
        /\ UNCHANGED <<fixed, users, current_user, screen, cards, popups, user_likes,
                       user_dislikes, user_ratings>>
        /\ WithinBound

\* the Details button of a card: show_activity_details
details_button ==
    \E activity_id \in cards :
        /\ popups' = popups \cup {activity_id}
        /\ last' = Quiet
        /\ UNCHANGED <<fixed, users, current_user, screen, cards, user_pins, user_likes,
                       user_dislikes, user_ratings>>
        /\ WithinBound

\* the Submit Rating button of a details window
submit_rating ==
    \E activity_id \in popups, rating \in StarChoices :
        /\ user_ratings' = rate_activity(user_ratings, current_user, activity_id, rating)
        /\ popups' = popups \ {activity_id}
        /\ last' = Quiet
        /\ UNCHANGED <<fixed, users, current_user, screen, cards, user_pins, user_likes,
                       user_dislikes>>
        /\ WithinBound

\* the Close button of a details window
close_popup ==
    \E activity_id \in popups :
        /\ popups' = popups \ {activity_id}
        /\ last' = Quiet
        /\ UNCHANGED <<fixed, users, current_user, screen, cards, user_pins, user_likes,
                       user_dislikes, user_ratings>>

Next ==
    \/ handle_login
    \/ handle_register
    \/ save_preferences
    \/ setup_home_screen
    \/ setup_preferences_screen
    \/ setup_recommendations_screen
    \/ generate_random_activity
    \/ logout
    \/ like_button
    \/ dislike_button
    \/ pin_button
    \/ details_button
    \/ submit_rating
    \/ close_popup

Spec == Init /\ [][Next]_vars

-----------------------------------------------------------------------------
(* The methods called directly, as a test or another front end calls them:  *)
(* no screen stands between the caller and the method, and the arguments    *)
(* are whatever the caller passes.                                          *)

\* activity ids a caller passes: the first of the catalog and one past its end
ApiIds == {0, N}

\* ratings a caller passes: inside and outside 1..5
ApiRatings == {3, 6}

\* the top_n a caller passes: the two the screens use
ApiTopN == {RandomTopN, ScreenTopN}

call_pin_activity ==
    \E activity_id \in ApiIds :
        /\ user_pins' = pin_activity(user_pins, current_user, activity_id)
        /\ last' = Report("pin_activity", 0, <<>>, TRUE, "showinfo: Pinned")
        /\ UNCHANGED <<fixed, users, current_user, screen, cards, popups, user_likes,
                       user_dislikes, user_ratings>>
        /\ WithinBound

call_like_activity ==
    \E activity_id \in ApiIds :
        /\ user_likes' = like_activity(user_likes, user_dislikes, current_user, activity_id)[1]
        /\ user_dislikes' = like_activity(user_likes, user_dislikes, current_user, activity_id)[2]
        /\ last' = Report("like_activity", 0, <<>>, TRUE, "showinfo: Liked")
        /\ UNCHANGED <<fixed, users, current_user, screen, cards, popups, user_pins,
                       user_ratings>>
        /\ WithinBound

call_dislike_activity ==
    \E activity_id \in ApiIds :
        /\ user_likes' = dislike_activity(user_likes, user_dislikes, current_user, activity_id)[1]
        /\ user_dislikes' = dislike_activity(user_likes, user_dislikes, current_user, activity_id)[2]
        /\ last' = Report("dislike_activity", 0, <<>>, TRUE, "showinfo: Disliked")
        /\ UNCHANGED <<fixed, users, current_user, screen, cards, popups, user_pins,
                       user_ratings>>
        /\ WithinBound

call_rate_activity ==
    \E activity_id \in ApiIds, rating \in ApiRatings :
        /\ user_ratings' = rate_activity(user_ratings, current_user, activity_id, rating)
        /\ last' = Report("rate_activity", 0, <<>>, TRUE, "showinfo: Rating Saved")
        /\ UNCHANGED <<fixed, users, current_user, screen, cards, popups, user_pins,
                       user_likes, user_dislikes>>
        /\ WithinBound

call_get_recommendations ==
    \E top_n \in ApiTopN :
        \E out \in recommendations(top_n) :
            /\ last' = Report("get_recommendations", top_n, out, TRUE, recommendation_box)
            /\ UNCHANGED <<fixed, users, current_user, screen, cards, popups, user_pins,
                           user_likes, user_dislikes, user_ratings>>

call_logout ==
    /\ current_user' = None
    /\ screen' = "login"
    /\ cards' = {}
    /\ popups' = {}
    /\ last' = Quiet
    /\ UNCHANGED <<fixed, users, user_pins, user_likes, user_dislikes, user_ratings>>

NextAPI ==
    \/ handle_login
    \/ handle_register
    \/ call_pin_activity
    \/ call_like_activity
    \/ call_dislike_activity
    \/ call_rate_activity
    \/ call_get_recommendations
    \/ call_logout

SpecAPI == Init /\ [][NextAPI]_vars

-----------------------------------------------------------------------------
(* Construction: ActivityRecommender() reading a dataset whose Participants  *)
(* column is any column of up to MaxRows raw values                          *)

\* the Participants columns a dataset file can hold
ParticipantsColumns == UNION {[1..n -> 0..MaxRaw] : n \in 1..MaxRows}

\* a dataset file with that Participants column: the rows differ in Price and
\* alternate between two Types
DatasetWith(column) ==
    [i \in 1..Len(column) |->
        [Activity |-> <<"row", i>>,
         Type |-> IF i % 2 = 1 THEN "Outdoor" ELSE "Indoor",
         Price |-> i,
         Participants |-> column[i]]]

\* the files pd.read_csv can meet: missing or empty, or one of the datasets
DatasetFiles == { <<>> } \cup {DatasetWith(column) : column \in ParticipantsColumns}

\* the object before __init__ has run
InitScale ==
    /\ activities = <<>>
    /\ content_similarity = <<>>
    /\ argsort_ties \in {"stable", "reversed"}
    /\ users = [k \in {} |-> {}]
    /\ user_pins = defaultdict({})
    /\ user_likes = defaultdict({})
    /\ user_dislikes = defaultdict({})
    /\ user_ratings = defaultdict(<<>>)
    /\ current_user = None
    /\ screen = "none"
    /\ cards = {}
    /\ popups = {}
    /\ last = Quiet

\* __init__ with `csv` as the dataset file: load_data, prepare_data and the
\* login screen; `last` keeps the file that was read
construct ==
    \E csv \in DatasetFiles :
        /\ screen = "none"
        /\ activities' = scale_price(load_data(csv))
        /\ content_similarity' = cosine_similarity(scale_price(load_data(csv)))
        /\ screen' = "login"
        /\ last' = [op |-> "__init__", n |-> 0, out |-> <<>>, ok |-> TRUE,
                    box |-> IF Len(csv) = 0 THEN "showerror: Failed to load data" ELSE "",
                    csv |-> csv]
        /\ UNCHANGED <<argsort_ties, users, user_pins, user_likes, user_dislikes,
                       user_ratings, current_user, cards, popups>>

NextScale == construct

SpecScale == InitScale /\ [][NextScale]_vars

-----------------------------------------------------------------------------
(* Properties *)

Rng(s) == {s[i] : i \in 1..Len(s)}

Distinct(s) == \A i, j \in 1..Len(s) : i # j => s[i] # s[j]

\* the last handler called get_recommendations; `last` holds what it returned
Recommended == last.op = "get_recommendations"

my_preferences == users[current_user].preferences

\* the home screen shows: its buttons call get_recommendations for the
\* logged-in user (every collection a session builds is reached there)
AtHome == screen = "home" /\ user_known

\* an activity that passes the preference filters and was not interacted with
Eligible(a) == a \notin my_interacted /\ ~filtered_out(my_preferences, activities[a])

\* the orders in which a dict of these items can have been filled
Orders(dict) ==
    {[i \in 1..Len(dict) |-> dict[p[i]]] :
        p \in {q \in [1..Len(dict) -> 1..Len(dict)] :
                 \A i, j \in 1..Len(dict) : i # j => q[i] # q[j]}}

\* C1: get_recommendations never returns an activity that is in the current
\* user's pins, likes, dislikes or ratings.
C1_NeverReturnsInteracted ==
    (Recommended /\ user_known) => Rng(last.out) \cap my_interacted = {}

\* no id is in a user's likes and in the same user's dislikes
C2_MutualExclusion ==
    \A k \in DictKeys : user_likes[k] \cap user_dislikes[k] = {}

\* a click on Like leaves the id in likes and not in dislikes, a click on
\* Dislike the reverse, and no other handler changes either collection
C2_LastCallWins ==
    /\ \A id \in Ids :
          /\ like(id) => /\ id \in user_likes'[current_user]
                         /\ id \notin user_dislikes'[current_user]
          /\ dislike(id) => /\ id \in user_dislikes'[current_user]
                            /\ id \notin user_likes'[current_user]
    /\ (user_likes' # user_likes \/ user_dislikes' # user_dislikes)
          => (like_button \/ dislike_button)

\* C2: no id is in a user's likes and dislikes at once; a click on Like leaves
\* the id in likes and not in dislikes, a click on Dislike the reverse, and no
\* other handler changes either set.
C2_LikesDislikesDisjoint == []C2_MutualExclusion /\ [][C2_LastCallWins]_vars

\* C2 happens: a user holds a like and a dislike, of different activities
C2_Witness ==
    \E k \in DictKeys : user_likes[k] # {} /\ user_dislikes[k] # {}

\* the number of entries of out whose score is not the sentinel
NonSentinel(out, scores) == Cardinality({a \in Rng(out) : scores[a] # Sentinel})

WellFormed(out, top_n, scores) ==
    /\ Len(out) = Min(top_n, N)
    /\ Distinct(out)
    /\ Rng(out) \subseteq Ids
    /\ NonSentinel(out, scores)
          = Min(Len(out), Cardinality({a \in Ids : scores[a] # Sentinel}))

C4_NeverReturnsOtherCategory ==
    (Recommended /\ user_known /\ my_preferences.activity_types # {})
        => \A a \in Rng(last.out) : activities[a].Type \in my_preferences.activity_types

\* one click on Register with a non-blank username
C5_Step ==
    \A text \in TypedNames :
        (register(text) /\ strip(text) # <<>>) =>
            IF strip(text) \in DOMAIN users
            THEN /\ ~last'.ok
                 /\ last'.box = "showerror: Username already exists"
                 /\ UNCHANGED <<users, user_pins, user_likes, user_dislikes, user_ratings,
                                current_user>>
            ELSE /\ last'.ok
                 /\ DOMAIN users' = DOMAIN users \cup {strip(text)}
                 /\ \A u \in DOMAIN users : users'[u] = users[u]
                 /\ users'[strip(text)] =
                        [user_id |-> Cardinality(DOMAIN users),
                         preferences |-> DefaultPreferences]
                 /\ user_pins'[strip(text)] = {} /\ user_likes'[strip(text)] = {}
                 /\ user_dislikes'[strip(text)] = {} /\ user_ratings'[strip(text)] = <<>>
                 /\ UNCHANGED <<user_pins, user_likes, user_dislikes, user_ratings>>

\* C5: Register with an existing username (exact match after strip) reports
\* failure and changes no user and no collection; with a new username it
\* succeeds and adds exactly that user, with the next user_id, the default
\* preferences and empty collections.
C5_DuplicateUsernameRejected == [][C5_Step]_vars

\* C5 happens: Register was refused while two accounts exist, one of them
\* with preferences of its own
C5_Witness ==
    /\ last.op = "handle_register" /\ ~last.ok
    /\ last.box = "showerror: Username already exists"
    /\ Cardinality(DOMAIN users) = 2
    /\ \E u \in DOMAIN users : users[u].preferences # DefaultPreferences

\* C6 as claimed: the returned list is in descending order of final score and
\* activities of equal score are in ascending order of id.
C6_TiesAscendingId ==
    (Recommended /\ user_known) =>
        \A i, j \in 1..Len(last.out) :
            i < j => \/ my_scores[last.out[i]] > my_scores[last.out[j]]
                     \/ /\ my_scores[last.out[i]] = my_scores[last.out[j]]
                        /\ last.out[i] < last.out[j]

\* C6 as amended: the returned list is in descending order of final score and
\* activities of equal score are in the reverse of the order argsort leaves
\* them in: descending id where argsort keeps equal keys in index order.
C6_DescendingScore ==
    (Recommended /\ user_known) =>
        LET scores == my_scores
        IN  \A i, j \in 1..Len(last.out) :
                i < j => \/ scores[last.out[i]] > scores[last.out[j]]
                         \/ /\ scores[last.out[i]] = scores[last.out[j]]
                            /\ IF argsort_ties = "stable"
                               THEN last.out[i] > last.out[j]
                               ELSE last.out[i] < last.out[j]

\* C6 happens: a returned list holds two activities of equal non-sentinel
\* score and two of different scores
C6_Witness ==
    /\ Recommended /\ user_known
    /\ argsort_ties = "stable"
    /\ \E i, j \in 1..Len(last.out) :
          /\ i < j
          /\ my_scores[last.out[i]] = my_scores[last.out[j]]
          /\ my_scores[last.out[i]] # Sentinel
    /\ \E i, j \in 1..Len(last.out) : my_scores[last.out[i]] > my_scores[last.out[j]]

\* C7: when get_recommendations has no ranking to return (the current user is
\* not registered, or the scoring raised) it shows an error box and returns
\* min(top_n, |catalog|) distinct activities of the catalog.
C7_FailureIsReported ==
    (Recommended /\ (~user_known \/ recommendation_raises)) =>
        /\ last.box # ""
        /\ Len(last.out) = Min(last.n, N)
        /\ Distinct(last.out)
        /\ Rng(last.out) \subseteq Ids

\* C8: every stored rating is an integer in 1..5.
C8_RatingsInRange ==
    \A k \in DictKeys :
        \A i \in 1..Len(user_ratings[k]) : user_ratings[k][i][2] \in 1..5

\* C9: the list get_recommendations returns is a function of the catalog, the
\* current user's preferences, pins, likes, dislikes and ratings and of top_n:
\* the list a handler received is the one computed from them, and it is the
\* same for every order in which the ratings were entered.
C9_Deterministic ==
    (Recommended /\ user_known) =>
        LET scores == my_scores
        IN  /\ last.out = top_indices(scores, last.n)
            /\ \A order \in Orders(my_ratings) :
                  LET reordered == final_scores(my_preferences, my_pins, my_likes,
                                                my_dislikes, order)
                  IN  /\ reordered = scores
                      /\ top_indices(reordered, last.n) = last.out

\* C9 happens: a list was returned to a user with two ratings and two
\* eligible activities of different scores
C9_Witness ==
    /\ Recommended /\ user_known
    /\ Len(my_ratings) >= 2
    /\ \E a, b \in Ids : Eligible(a) /\ Eligible(b) /\ my_scores[a] # my_scores[b]

\* the sum over the rated activities r of similarity[r][a] * rating(r)
RatingSum(a) ==
    SumSeq([i \in 1..Len(my_ratings) |->
                content_similarity[my_ratings[i][1]][a] * my_ratings[i][2]])

\* C10: the final score of an activity that passes the filters and was not
\* interacted with is the sum over the rated activities r of
\* similarity[r][a] * rating(r): no like, pin or dislike of another activity
\* changes it.
C10_ScoreIsRatingSum ==
    user_known =>
        LET rated == add_ratings([i \in Ids |-> 0], my_ratings)
            boosted == add_boosts(rated, my_likes, my_pins, my_dislikes)
            scores == my_scores
        IN  \A a \in Ids :
                /\ rated[a] = RatingSum(a)
                /\ a \notin my_likes \cup my_pins \cup my_dislikes => boosted[a] = rated[a]
                /\ Eligible(a) => scores[a] = RatingSum(a)

\* C10 happens: a list was returned to a user with a rating and a like, pin
\* or dislike, an eligible activity scoring above zero
C10_Witness ==
    /\ Recommended /\ user_known
    /\ Len(my_ratings) >= 1
    /\ my_likes \cup my_pins \cup my_dislikes # {}
    /\ \E a \in Ids : Eligible(a) /\ RatingSum(a) > 0

\* C11: every stored preferences record has min <= max in its price range and
\* in its participants range.
C11_RangesOrdered ==
    \A u \in DOMAIN users :
        /\ users[u].preferences.price_range[1] <= users[u].preferences.price_range[2]
        /\ users[u].preferences.participants_range[1]
              <= users[u].preferences.participants_range[2]

\* the user table and the four interaction collections
store == <<users, user_pins, user_likes, user_dislikes, user_ratings>>

\* the collections hold nothing under a key that is no registered username
C12_NoStrayRecords ==
    \A k \in DictKeys \ DOMAIN users :
        /\ user_pins[k] = {} /\ user_likes[k] = {}
        /\ user_dislikes[k] = {} /\ user_ratings[k] = <<>>

\* a recommendation request, a login and a logout leave the store as it was,
\* and a step that changes it is Register, Save Preferences, Like, Dislike,
\* Pin or Submit Rating
C12_Frame ==
    /\ UNCHANGED store
          \/ ~(setup_recommendations_screen \/ generate_random_activity
                  \/ handle_login \/ logout)
    /\ UNCHANGED store
          \/ (handle_register \/ save_preferences \/ like_button \/ dislike_button
                \/ pin_button \/ submit_rating)

\* C12: the user table, the preferences and the pins, likes, dislikes and
\* ratings change only through Register, Save Preferences, Like, Dislike, Pin
\* and Submit Rating: get_recommendations (top_n 5 and 1), login and logout
\* leave them unchanged, and no record is kept for an unregistered username.
C12_OnlyUserActionsChangeStore == []C12_NoStrayRecords /\ [][C12_Frame]_vars

\* C12 happens: a list was returned to a user who has interaction records and
\* preferences of their own, all still there
C12_Witness ==
    /\ Recommended /\ user_known
    /\ my_interacted # {}
    /\ my_preferences # DefaultPreferences

\* the raw Participants column of the file the constructor read
raw_column == [i \in 1..Len(last.csv) |-> last.csv[i].Participants]

\* the Participants column of self.activities after construction
scaled_column == [i \in 1..Len(last.csv) |-> activities[i - 1].Participants]

\* the constructor read a dataset with at least one row
Loaded == last.op = "__init__" /\ screen = "login" /\ Len(last.csv) > 0

\* C13: a Participants column whose values are all the same is rescaled to
\* the constant 1; in any other column the smallest value becomes 1, the
\* largest 5 and every value lies in 1..5 (in units of 1/PartUnit).
C13_RescaledToOneFive ==
    Loaded =>
        /\ Len(scaled_column) = Len(raw_column)
        /\ IF SeqMin(raw_column) = SeqMax(raw_column)
           THEN \A i \in 1..Len(raw_column) : scaled_column[i] = 1 * PartUnit
           ELSE \A i \in 1..Len(raw_column) :
                   /\ raw_column[i] = SeqMin(raw_column) => scaled_column[i] = 1 * PartUnit
                   /\ raw_column[i] = SeqMax(raw_column) => scaled_column[i] = 5 * PartUnit
                   /\ 1 * PartUnit <= scaled_column[i] /\ scaled_column[i] <= 5 * PartUnit

\* C13 happens: a dataset of several rows with one Participants value, not 1,
\* was read and rescaled
C13_Witness ==
    /\ Loaded
    /\ Len(raw_column) >= 2
    /\ SeqMin(raw_column) = SeqMax(raw_column)
    /\ SeqMin(raw_column) > 1
    /\ \A i \in 1..Len(raw_column) : scaled_column[i] = 1 * PartUnit

\* the list just returned ranks the activities that pass the filters and were
\* not interacted with before the others, and holds one of the others only
\* when it holds all of the former
C14_Ranked ==
    (Recommended /\ user_known) =>
        LET scores == my_scores
            out == last.out
            eligible == {a \in Ids : Eligible(a)}
        IN  /\ \A a \in Ids : a \in eligible <=> scores[a] # Sentinel
            /\ \A a \in eligible : scores[a] > Sentinel
            /\ \A i, j \in 1..Len(out) :
                  (out[i] \notin eligible /\ out[j] \in eligible) => j < i
            /\ Rng(out) \subseteq eligible \/ eligible \subseteq Rng(out)

\* C14: in a returned list every activity that passes the filters and was not
\* interacted with stands before every filtered or interacted one, its score
\* is above the sentinel, and a filtered or interacted activity is in the list
\* only if every other activity of the catalog is.
C14_EligibleBeforeSentinel == []C14_Ranked

\* C14 happens: a returned list holds an activity the filters reject, one the
\* user interacted with and one that is neither
C14_Witness ==
    /\ Recommended /\ user_known
    /\ \E a \in Rng(last.out) :
          a \notin my_interacted /\ filtered_out(my_preferences, activities[a])
    /\ \E a \in Rng(last.out) : a \in my_interacted
    /\ \E a \in Rng(last.out) : Eligible(a)

\* the list just returned is computed from the score vector, and every other
\* way of spreading the interacted ids over pins, likes and dislikes (likes
\* and dislikes disjoint, as the program keeps them) gives that same vector
C15_SameScores ==
    (Recommended /\ user_known) =>
        LET scores == my_scores
            interacted == my_interacted
            rated == Keys(my_ratings)
        IN  /\ last.out = top_indices(scores, last.n)
            /\ \A pins \in SUBSET interacted, likes \in SUBSET interacted :
                 \A dislikes \in SUBSET (interacted \ likes) :
                   (pins \cup likes \cup dislikes \cup rated = interacted) =>
                       final_scores(my_preferences, pins, likes, dislikes, my_ratings)
                           = scores

\* C15: a returned list depends on the pins, likes and dislikes only through
\* the set of interacted ids: with the same preferences and ratings, every
\* other way of spreading the interacted ids over pins, likes and dislikes
\* gives the same score vector and so the same list.
C15_OnlyInteractedSetMatters == []C15_SameScores

\* C15 happens: a list was returned to a user who has a pin and a dislike
C15_Witness ==
    /\ Recommended /\ user_known
    /\ my_pins # {}
    /\ my_dislikes # {}

\* one step loses no pin and no rated id, moves liked and disliked ids only
\* between likes and dislikes, and so keeps every interacted id, of every key
C16_Step ==
    \A k \in DictKeys :
        /\ user_pins[k] \subseteq user_pins'[k]
        /\ Keys(user_ratings[k]) \subseteq Keys(user_ratings'[k])
        /\ (user_likes[k] \cup user_dislikes[k])
              \subseteq (user_likes'[k] \cup user_dislikes'[k])
        /\ interacted_of(user_pins[k], user_likes[k], user_dislikes[k], user_ratings[k])
              \subseteq interacted_of(user_pins'[k], user_likes'[k], user_dislikes'[k],
                                      user_ratings'[k])

\* C16: the set of interacted ids (pins, likes, dislikes and rated ids) of a
\* user never shrinks, whatever handler runs, logout and login included.
C16_InteractedNeverShrinks == [][C16_Step]_vars

\* C16 happens: a user with interaction records has logged out and in again
C16_Witness ==
    /\ last.op = "handle_login" /\ last.ok
    /\ user_known
    /\ my_interacted # {}

\* a click on Like, Dislike, Pin or Submit Rating is made by a logged-in
\* user, who stays logged in, and changes no account and no collection of
\* any other key
C17_Step ==
    \/ /\ user_known
       /\ current_user' = current_user
       /\ users' = users
       /\ \A k \in DictKeys \ {current_user} :
             /\ user_pins'[k] = user_pins[k]
             /\ user_likes'[k] = user_likes[k]
             /\ user_dislikes'[k] = user_dislikes[k]
             /\ user_ratings'[k] = user_ratings[k]
    \/ ~(like_button \/ dislike_button \/ pin_button \/ submit_rating)

====
